---- MODULE Spec2Model ----
(***************************************************************************)
(* A model of pylisp (src/lisp.py): tokenize, atom, read_from_tokens,      *)
(* the standard environment, eval, schemestr, run and repl.                *)
(*                                                                         *)
(* Text is a sequence of one-character strings; a token is such a sequence *)
(* too.  An expression or value is a record [t, v]:                        *)
(*   t = "num"   v an integer          (Python int)                        *)
(*   t = "sym"   v a token             (Python str)                        *)
(*   t = "list"  v a sequence          (Python list)                       *)
(*   t = "bool"  v a BOOLEAN           (Python bool, result of = null?)    *)
(*   t = "proc"  v the builtin's name  (a callable of the environment)     *)
(*   t = "unit"  v = 0                 (Python None)                       *)
(* An exception is the name of its Python class; "none" is no exception.   *)
(***************************************************************************)
EXTENDS Integers, Sequences, FiniteSets, TLC

VARIABLES
    pc,        \* "host": outside repl; "repl": inside repl's loop; "dead": process ended
    main,      \* TRUE iff the module runs as __main__ (line 187)
    env,       \* global_env
    out,       \* standard output, a sequence of printed lines
    n,         \* number of programs handed to run or read by repl so far
    op,        \* the last operation: "none", "run", "repl", "start", "eof", "read"
    line,      \* the text of the last program
    envBefore, \* global_env as the last attempt began
    outBefore, \* standard output as the last attempt began
    val,       \* the value of the last attempt (Unit when it raised)
    err,       \* the exception the last attempt raised, "none" if none
    tr,        \* the evaluation events of the last attempt
    lastDef,   \* name -> value of the most recently completed define of that name
    tokens,    \* the token list handed to read_from_tokens (reader specification)
    tokens0,   \* that list as it was before the call
    rd         \* the outcome of the read_from_tokens call

vars == <<pc, main, env, out, n, op, line, envBefore, outBefore, val, err, tr,
          lastDef, tokens, tokens0, rd>>

(***************************************************************************)
(* Bounds                                                                  *)
(***************************************************************************)
MaxLines == 3        \* programs per session
MaxTokens == 6       \* length of the token lists handed to read_from_tokens

(***************************************************************************)
(* Values                                                                  *)
(***************************************************************************)
Num(i) == [t |-> "num", v |-> i]
Sym(s) == [t |-> "sym", v |-> s]
Lst(s) == [t |-> "list", v |-> s]
Bool(b) == [t |-> "bool", v |-> b]
Proc(s) == [t |-> "proc", v |-> s]
Unit == [t |-> "unit", v |-> 0]

NONE == "none"

RECURSIVE Cat(_)
Cat(ss) == IF ss = <<>> THEN <<>> ELSE Head(ss) \o Cat(Tail(ss))

RECURSIVE Join(_, _)
Join(sep, ss) ==
    IF ss = <<>> THEN <<>>
    ELSE IF Len(ss) = 1 THEN ss[1]
    ELSE ss[1] \o sep \o Join(sep, Tail(ss))

(***************************************************************************)
(* tokenize: chars.replace('(',' ( ').replace(')',' ) ').split()           *)
(***************************************************************************)
RECURSIVE replace(_, _, _)
replace(chars, old, new) ==
    IF chars = <<>> THEN <<>>
    ELSE (IF Head(chars) = old THEN new ELSE <<Head(chars)>>)
         \o replace(Tail(chars), old, new)

RECURSIVE splitFrom(_, _, _)
splitFrom(chars, cur, acc) ==
    IF chars = <<>>
    THEN IF cur = <<>> THEN acc ELSE Append(acc, cur)
    ELSE IF Head(chars) = " "
         THEN splitFrom(Tail(chars), <<>>, IF cur = <<>> THEN acc ELSE Append(acc, cur))
         ELSE splitFrom(Tail(chars), Append(cur, Head(chars)), acc)

split(chars) == splitFrom(chars, <<>>, <<>>)

tokenize(chars) ==
    split(replace(replace(chars, "(", <<" ", "(", " ">>), ")", <<" ", ")", " ">>))

(***************************************************************************)
(* atom: int(token), else float(token), else Symbol(token).  The programs  *)
(* of this model spell no float: no token holds '.', an exponent, inf or   *)
(* nan, so float(token) raises ValueError whenever int(token) did.         *)
(***************************************************************************)
Digits == <<"0", "1", "2", "3", "4", "5", "6", "7", "8", "9">>

IsDigit(c) == \E i \in 1..10 : Digits[i] = c

DigitVal(c) == (CHOOSE i \in 1..10 : Digits[i] = c) - 1

RECURSIVE DecVal(_)
DecVal(ds) ==
    IF ds = <<>> THEN 0
    ELSE 10 * DecVal(SubSeq(ds, 1, Len(ds) - 1)) + DigitVal(ds[Len(ds)])

IntBody(token) ==
    IF token # <<>> /\ Head(token) \in {"+", "-"} THEN Tail(token) ELSE token

IsIntLit(token) ==
    /\ IntBody(token) # <<>>
    /\ \A i \in 1..Len(IntBody(token)) : IsDigit(IntBody(token)[i])

IntVal(token) ==
    IF Head(token) = "-" THEN 0 - DecVal(IntBody(token)) ELSE DecVal(IntBody(token))

atom(token) == IF IsIntLit(token) THEN Num(IntVal(token)) ELSE Sym(token)

(***************************************************************************)
(* read_from_tokens.  The outcome is [err, val, rest]: the exception, the  *)
(* expression read, and the token list as the call left it (the list is    *)
(* popped in place, also when the call raises).                            *)
(***************************************************************************)
LP == <<"(">>
RP == <<")">>

Raise(e, rest) == [err |-> e, val |-> Unit, rest |-> rest]

RECURSIVE read_from_tokens(_)
RECURSIVE read_list(_, _)

\* read_list with L.insert(0, ...) for L.append(...)
read_list_prepend(toks, L) ==
    IF toks = <<>> THEN Raise("IndexError", toks)
    ELSE IF Head(toks) = RP THEN [err |-> NONE, val |-> Lst(L), rest |-> Tail(toks)]
    ELSE LET r == read_from_tokens(toks)
         IN IF r.err # NONE THEN r ELSE read_list(r.rest, <<r.val>> \o L)

\* Lines 58-62: L = []; while tokens[0] != ')': L.append(read_from_tokens(tokens));
\* tokens.pop(0); return L.  tokens[0] of an empty list raises IndexError.
read_list(toks, L) ==
    IF toks = <<>> THEN Raise("IndexError", toks)
    ELSE IF Head(toks) = RP THEN [err |-> NONE, val |-> Lst(L), rest |-> Tail(toks)]
    ELSE LET r == read_from_tokens(toks)
         IN IF r.err # NONE THEN r ELSE read_list(r.rest, Append(L, r.val))

read_from_tokens(toks) ==
    IF Len(toks) = 0 THEN Raise("SyntaxError", toks)
    ELSE LET token == Head(toks)
             rest == Tail(toks)
         IN IF token = LP THEN read_list(rest, <<>>)
            ELSE IF token = RP THEN Raise("SyntaxError", rest)
            ELSE [err |-> NONE, val |-> atom(token), rest |-> rest]

parse(program) == read_from_tokens(tokenize(program))

(***************************************************************************)
(* Names of the programs' symbols                                          *)
(***************************************************************************)
sIf == <<"i", "f">>
sDefine == <<"d", "e", "f", "i", "n", "e">>
sPlus == <<"+">>
sEq == <<"=">>
sCar == <<"c", "a", "r">>
sCdr == <<"c", "d", "r">>
sCons == <<"c", "o", "n", "s">>
sList == <<"l", "i", "s", "t">>
sBegin == <<"b", "e", "g", "i", "n">>
sPrint == <<"p", "r", "i", "n", "t">>
sNull == <<"n", "u", "l", "l", "?">>
sAppend == <<"a", "p", "p", "e", "n", "d">>

(***************************************************************************)
(* standard_environment, restricted to the builtins the programs of this   *)
(* model use.  A key is the name as eval sees it (a Symbol, or the Number  *)
(* of (define 1 e)); '+' and 'append' are the same callable, operator.add. *)
(***************************************************************************)
Builtins ==
    { <<sPlus, "add">>, <<sAppend, "add">>, <<sEq, "eq">>, <<sCar, "car">>,
      <<sCdr, "cdr">>, <<sCons, "cons">>, <<sList, "list">>, <<sBegin, "begin">>,
      <<sPrint, "print">>, <<sNull, "null?">> }

standard_environment ==
    [k \in {Sym(b[1]) : b \in Builtins} |->
        Proc((CHOOSE b \in Builtins : b[1] = k.v)[2])]

\* env[symbol] = value
Bind(e, name, value) ==
    [k \in DOMAIN e \cup {name} |-> IF k = name THEN value ELSE e[k]]

(***************************************************************************)
(* Python's truth value, ==, + and str() on the values of the model        *)
(***************************************************************************)
IsNumeric(v) == v.t \in {"num", "bool"}

NumOf(v) == IF v.t = "bool" THEN (IF v.v THEN 1 ELSE 0) ELSE v.v

Truthy(v) ==
    CASE v.t = "num" -> v.v # 0
      [] v.t = "bool" -> v.v
      [] v.t = "list" -> v.v # <<>>
      [] v.t = "sym" -> v.v # <<>>
      [] v.t = "proc" -> TRUE
      [] v.t = "unit" -> FALSE

RECURSIVE PyEq(_, _)
PyEq(a, b) ==
    IF IsNumeric(a) /\ IsNumeric(b) THEN NumOf(a) = NumOf(b)
    ELSE IF a.t = "list" /\ b.t = "list"
         THEN /\ Len(a.v) = Len(b.v)
              /\ \A i \in 1..Len(a.v) : PyEq(a.v[i], b.v[i])
    ELSE a = b

RECURSIVE NatStr(_)
NatStr(i) ==
    IF i < 10 THEN <<Digits[i + 1]>>
    ELSE NatStr(i \div 10) \o <<Digits[(i % 10) + 1]>>

IntStr(i) == IF i < 0 THEN <<"-">> \o NatStr(0 - i) ELSE NatStr(i)

\* str(x) and repr(x) agree on every value of the model but a Symbol, which is
\* never a value: the language has no quote.
RECURSIVE PyStr(_)
PyStr(x) ==
    CASE x.t = "num" -> IntStr(x.v)
      [] x.t = "bool" -> IF x.v THEN <<"T", "r", "u", "e">> ELSE <<"F", "a", "l", "s", "e">>
      [] x.t = "unit" -> <<"N", "o", "n", "e">>
      [] x.t = "sym" -> x.v
      [] x.t = "proc" -> <<"<built-in function ", x.v, ">">>
      [] x.t = "list" ->
            <<"[">> \o Join(<<",", " ">>, [i \in 1..Len(x.v) |-> PyStr(x.v[i])]) \o <<"]">>

(***************************************************************************)
(* schemestr                                                               *)
(***************************************************************************)
RECURSIVE schemestr(_)
schemestr(exp) ==
    IF exp.t = "list"
    THEN <<"(">> \o Join(<<" ">>, [i \in 1..Len(exp.v) |-> schemestr(exp.v[i])]) \o <<")">>
    ELSE PyStr(exp)

(***************************************************************************)
(* The builtins: the call proc(args) of a callable of the environment.  st is the *)
(* state eval threads: [env, out, tr].  The result is [err, val, st].      *)
(***************************************************************************)
Ok(v, st) == [err |-> NONE, val |-> v, st |-> st]

Fail(e, st) == [err |-> e, val |-> Unit, st |-> st]

\* operator.add
add(args, st) ==
    IF Len(args) # 2 THEN Fail("TypeError", st)
    ELSE IF IsNumeric(args[1]) /\ IsNumeric(args[2])
         THEN Ok(Num(NumOf(args[1]) + NumOf(args[2])), st)
    ELSE IF args[1].t = "list" /\ args[2].t = "list"
         THEN Ok(Lst(args[1].v \o args[2].v), st)
    ELSE Fail("TypeError", st)

\* operator.eq
eq(args, st) ==
    IF Len(args) # 2 THEN Fail("TypeError", st)
    ELSE Ok(Bool(PyEq(args[1], args[2])), st)

\* lambda x: x[0]
car(args, st) ==
    IF Len(args) # 1 THEN Fail("TypeError", st)
    ELSE IF args[1].t # "list" THEN Fail("TypeError", st)
    ELSE IF args[1].v = <<>> THEN Fail("IndexError", st)
    ELSE Ok(args[1].v[1], st)

\* lambda x: x[1:]
cdr(args, st) ==
    IF Len(args) # 1 THEN Fail("TypeError", st)
    ELSE IF args[1].t # "list" THEN Fail("TypeError", st)
    ELSE Ok(Lst(SubSeq(args[1].v, 2, Len(args[1].v))), st)

\* lambda x,y: [x] + y
cons(args, st) ==
    IF Len(args) # 2 THEN Fail("TypeError", st)
    ELSE IF args[2].t # "list" THEN Fail("TypeError", st)
    ELSE Ok(Lst(<<args[1]>> \o args[2].v), st)

\* lambda *x: List(x)
list(args, st) == Ok(Lst(args), st)

\* lambda *x: x[-1]
begin(args, st) ==
    IF args = <<>> THEN Fail("IndexError", st) ELSE Ok(args[Len(args)], st)

\* print: the arguments' str(), joined by a space, as one line; returns None
print(args, st) ==
    Ok(Unit,
       [st EXCEPT !.out =
           Append(@, Join(<<" ">>, [i \in 1..Len(args) |-> PyStr(args[i])]))])

\* lambda x: x == []
null(args, st) ==
    IF Len(args) # 1 THEN Fail("TypeError", st)
    ELSE Ok(Bool(PyEq(args[1], Lst(<<>>))), st)

Apply(proc, args, st) ==
    CASE proc = "add" -> add(args, st)
      [] proc = "eq" -> eq(args, st)
      [] proc = "car" -> car(args, st)
      [] proc = "cdr" -> cdr(args, st)
      [] proc = "cons" -> cons(args, st)
      [] proc = "list" -> list(args, st)
      [] proc = "begin" -> begin(args, st)
      [] proc = "print" -> print(args, st)
      [] proc = "null?" -> null(args, st)

(***************************************************************************)
(* eval.  p is the position of x in the program being evaluated (the       *)
(* indices from the root, 1 for x[0]); the events of st.tr record what     *)
(* eval did: "enter" p x when eval is called on x, "exit" p value when     *)
(* that call returns, "call" p (proc, args...) when a callable is invoked. *)
(***************************************************************************)
Event(k, p, v) == [k |-> k, p |-> p, v |-> v]

Log(st, k, p, v) == [st EXCEPT !.tr = Append(@, Event(k, p, v))]

RECURSIVE eval(_, _, _)
RECURSIVE eval_args(_, _, _, _, _)

\* eval_branch with the keyword tests after a look at the environment: a
\* bound if or define is applied like any other name
eval_branch_bound_first(x, e) ==
    IF x.t = "sym" THEN "variable"
    ELSE IF x.t = "num" THEN "number"
    ELSE IF x.v = <<>> THEN "IndexError"
    ELSE IF x.v[1] \in DOMAIN e THEN "call"
    ELSE IF x.v[1] = Sym(sIf) THEN "if"
    ELSE IF x.v[1] = Sym(sDefine) THEN "define"
    ELSE "call"

\* The branch the if/elif chain of lines 143-154 takes; x[0] of [] raises.
\* e is the env eval was called with: the chain does not consult it.
eval_branch(x, e) ==
    IF x.t = "sym" THEN "variable"
    ELSE IF x.t = "num" THEN "number"
    ELSE IF x.v = <<>> THEN "IndexError"
    ELSE IF x.v[1] = Sym(sIf) THEN "if"
    ELSE IF x.v[1] = Sym(sDefine) THEN "define"
    ELSE "call"

\* Line 144: env[x]
lookup(x, st) ==
    IF x \in DOMAIN st.env THEN Ok(st.env[x], st) ELSE Fail("KeyError", st)

\* eval_if with both branches evaluated before one is selected
eval_if_eager(x, p, st) ==
    IF Len(x.v) # 4 THEN Fail("ValueError", st)
    ELSE LET r == eval(x.v[2], p \o <<2>>, st)
         IN IF r.err # NONE THEN r
            ELSE LET c == eval(x.v[3], p \o <<3>>, r.st)
                 IN IF c.err # NONE THEN c
                    ELSE LET a == eval(x.v[4], p \o <<4>>, c.st)
                         IN IF a.err # NONE THEN a
                            ELSE Ok(IF Truthy(r.val) THEN c.val ELSE a.val, a.st)

\* Lines 148-150
eval_if(x, p, st) ==
    IF Len(x.v) # 4 THEN Fail("ValueError", st)
    ELSE LET r == eval(x.v[2], p \o <<2>>, st)
         IN IF r.err # NONE THEN r
            ELSE LET i == IF Truthy(r.val) THEN 3 ELSE 4
                 IN eval(x.v[i], p \o <<i>>, r.st)

\* define_bind with env.setdefault(symbol, value): an earlier binding stays
define_bind_keep_first(name, value, st) ==
    IF name.t = "list" THEN Fail("TypeError", st)
    ELSE IF name \in DOMAIN st.env THEN Ok(Unit, st)
    ELSE Ok(Unit, [st EXCEPT !.env = Bind(@, name, value)])

\* Line 153, after the value is there: env[symbol] = value (a list is unhashable)
define_bind(name, value, st) ==
    IF name.t = "list" THEN Fail("TypeError", st)
    ELSE Ok(Unit, [st EXCEPT !.env = Bind(@, name, value)])

\* eval_define with the name bound (to None) before its value is evaluated
eval_define_bind_first(x, p, st) ==
    IF Len(x.v) # 3 THEN Fail("ValueError", st)
    ELSE IF x.v[2].t = "list" THEN Fail("TypeError", st)
    ELSE LET r == eval(x.v[3], p \o <<3>>, [st EXCEPT !.env = Bind(@, x.v[2], Unit)])
         IN IF r.err # NONE THEN r
            ELSE Ok(Unit, [r.st EXCEPT !.env = Bind(@, x.v[2], r.val)])

\* Lines 152-153; the branch has no return: the value is None
eval_define(x, p, st) ==
    IF Len(x.v) # 3 THEN Fail("ValueError", st)
    ELSE LET r == eval(x.v[3], p \o <<3>>, st)
         IN IF r.err # NONE THEN r ELSE define_bind(x.v[2], r.val, r.st)

\* eval_args with the elements evaluated from the last to the first
eval_args_right_to_left(xs, i, p, st, acc) ==
    IF i > Len(xs) THEN Ok(Lst(acc), st)
    ELSE LET rr == eval_args(xs, i + 1, p, st, <<>>)
         IN IF rr.err # NONE THEN rr
            ELSE LET r == eval(xs[i], p \o <<i>>, rr.st)
                 IN IF r.err # NONE THEN r
                    ELSE Ok(Lst(acc \o <<r.val>> \o rr.val.v), r.st)

\* Line 156: [eval(arg, env) for arg in x[1:]], from element i on
eval_args(xs, i, p, st, acc) ==
    IF i > Len(xs) THEN Ok(Lst(acc), st)
    ELSE LET r == eval(xs[i], p \o <<i>>, st)
         IN IF r.err # NONE THEN r
            ELSE eval_args(xs, i + 1, p, r.st, Append(acc, r.val))

\* Line 157: proc(args); a value that is no callable raises TypeError
invoke(proc, args, p, st) ==
    IF proc.t # "proc" THEN Fail("TypeError", st)
    ELSE Apply(proc.v, args, Log(st, "call", p, Lst(<<proc>> \o args)))

\* Lines 155-157
eval_call(x, p, st) ==
    LET rp == eval(x.v[1], p \o <<1>>, st)
    IN IF rp.err # NONE THEN rp
       ELSE LET ra == eval_args(x.v, 2, p, rp.st, <<>>)
            IN IF ra.err # NONE THEN ra
               ELSE invoke(rp.val, ra.val.v, p, ra.st)

eval(x, p, st) ==
    LET s1 == Log(st, "enter", p, x)
        b == eval_branch(x, st.env)
        r == CASE b = "variable" -> lookup(x, s1)
               [] b = "number" -> Ok(x, s1)
               [] b = "IndexError" -> Fail("IndexError", s1)
               [] b = "if" -> eval_if(x, p, s1)
               [] b = "define" -> eval_define(x, p, s1)
               [] b = "call" -> eval_call(x, p, s1)
    IN IF r.err = NONE THEN [r EXCEPT !.st = Log(@, "exit", p, r.val)] ELSE r

\* run (line 175): eval(parse(program)) against global_env
run(program, e, o) ==
    LET st0 == [env |-> e, out |-> o, tr |-> <<>>]
        r == parse(program)
    IN IF r.err # NONE THEN Fail(r.err, st0) ELSE eval(r.val, <<>>, st0)

(***************************************************************************)
(* The programs a session draws its lines from                             *)
(***************************************************************************)
SP == <<" ">>

Form(words) == LP \o Join(SP, words) \o RP

X == <<"x">>
Y == <<"y">>
Z == <<"z">>

Lines ==
    { X,
      sIf,
      <<>>,
      Cat(<<LP, sPlus, SP, <<"1">>, SP, <<"2">>>>),
      Form(<<sDefine, X, <<"1">>>>),
      Form(<<sDefine, X, Form(<<sPlus, X, <<"1">>>>)>>),
      Form(<<sDefine, sIf, sList>>),
      Form(<<sDefine, sDefine, <<"7">>>>),
      Form(<<sBegin, Form(<<sDefine, Y, <<"2">>>>), Z>>),
      Form(<<sIf, <<"1">>, <<"2">>, Z>>),
      Form(<<sIf, Form(<<sNull, Form(<<sList>>)>>), <<"3">>, Form(<<sDefine, X, <<"9">>>>)>>),
      Form(<<sIf, <<"0">>, Z, Form(<<sPrint, <<"4">>>>)>>),
      Form(<<sList, Form(<<sPrint, <<"1">>>>), Form(<<sPrint, <<"2">>>>)>>),
      Form(<<sList, Form(<<sPrint, <<"1">>>>), Z, Form(<<sPrint, <<"2">>>>)>>),
      Form(<<sCdr, Form(<<sList>>)>>),
      Form(<<sCar, Form(<<sList>>)>>),
      Form(<<sCons, <<"1">>, Form(<<sList, <<"2">>>>)>>) }

(***************************************************************************)
(* The completed defines of an attempt, read off its events: a define     *)
(* form's "exit" names the form ("enter" of the same position) and the     *)
(* value bound (the "exit" of its third element).                          *)
(***************************************************************************)
IsForm(x, s) == x.t = "list" /\ x.v # <<>> /\ x.v[1] = Sym(s)

Idx(t, k, p) == {i \in 1..Len(t) : t[i].k = k /\ t[i].p = p}

Max(S) == CHOOSE i \in S : \A j \in S : j <= i

Before(t, k, p, i) == {j \in Idx(t, k, p) : j < i}

IsDefineExit(t, i) ==
    /\ t[i].k = "exit"
    /\ Before(t, "enter", t[i].p, i) # {}
    /\ IsForm(t[Max(Before(t, "enter", t[i].p, i))].v, sDefine)

DefineExits(t) == {i \in 1..Len(t) : IsDefineExit(t, i)}

RECURSIVE ApplyDefines(_, _, _)
ApplyDefines(e, t, i) ==
    IF i > Len(t) THEN e
    ELSE IF IsDefineExit(t, i)
         THEN LET x == t[Max(Before(t, "enter", t[i].p, i))].v
                  v == t[Max(Before(t, "exit", t[i].p \o <<3>>, i))].v
              IN ApplyDefines(Bind(e, x.v[2], v), t, i + 1)
    ELSE ApplyDefines(e, t, i + 1)

(***************************************************************************)
(* The session: the module is imported by a host (pc = "host"), which may  *)
(* call run and repl, or it is run as __main__, which calls repl.          *)
(***************************************************************************)
Init ==
    /\ main \in BOOLEAN
    /\ pc = IF main THEN "repl" ELSE "host"
    /\ env = standard_environment
    /\ out = <<>>
    /\ n = 0
    /\ op = "none"
    /\ line = <<>>
    /\ envBefore = standard_environment
    /\ outBefore = <<>>
    /\ val = Unit
    /\ err = NONE
    /\ tr = <<>>
    /\ lastDef = <<>>
    /\ tokens = <<>>
    /\ tokens0 = <<>>
    /\ rd = Raise(NONE, <<>>)

Attempt(program, r) ==
    /\ n < MaxLines
    /\ n' = n + 1
    /\ line' = program
    /\ envBefore' = env
    /\ outBefore' = out
    /\ env' = r.st.env
    /\ val' = r.val
    /\ err' = r.err
    /\ tr' = r.st.tr
    /\ lastDef' = ApplyDefines(lastDef, r.st.tr, 1)
    /\ UNCHANGED <<main, tokens, tokens0, rd>>

\* The exception of an attempt leaves repl: to the host, or it ends the process.
Leave == IF main THEN "dead" ELSE "host"

\* repl_print with "if val:" for "if val is not None:"
repl_print_truthy(v, o) == IF Truthy(v) THEN Append(o, schemestr(v)) ELSE o

\* Lines 183-184
repl_print(v, o) == IF v # Unit THEN Append(o, schemestr(v)) ELSE o

\* The host calls run(program)
Run(program) ==
    /\ pc = "host"
    /\ LET r == run(program, env, out)
       IN /\ Attempt(program, r)
          /\ out' = r.st.out
    /\ op' = "run"
    /\ pc' = "host"

\* The host calls repl()
StartRepl ==
    /\ pc = "host"
    /\ pc' = "repl"
    /\ op' = "start"
    /\ UNCHANGED <<main, env, out, n, line, envBefore, outBefore, val, err, tr,
                   lastDef, tokens, tokens0, rd>>

\* One iteration of repl's loop (lines 182-184) on the line input() returned
ReplStep(program) ==
    /\ pc = "repl"
    /\ LET r == run(program, env, out)
       IN /\ Attempt(program, r)
          /\ out' = IF r.err = NONE THEN repl_print(r.val, r.st.out) ELSE r.st.out
          /\ pc' = IF r.err = NONE THEN "repl" ELSE Leave
    /\ op' = "repl"

\* input() at the end of the input raises EOFError
ReplEof ==
    /\ pc = "repl"
    /\ pc' = Leave
    /\ op' = "eof"
    /\ err' = "EOFError"
    /\ val' = Unit
    /\ tr' = <<>>
    /\ envBefore' = env
    /\ outBefore' = out
    /\ UNCHANGED <<main, env, out, n, line, lastDef, tokens, tokens0, rd>>

Next ==
    \/ \E program \in Lines : Run(program)
    \/ StartRepl
    \/ \E program \in Lines : ReplStep(program)
    \/ ReplEof

Spec == Init /\ [][Next]_vars

(***************************************************************************)
(* The reader alone: read_from_tokens is called once on a token list.      *)
(***************************************************************************)
TokenAlphabet == {LP, RP, <<"1">>, X}

TokenLists == UNION {[1..k -> TokenAlphabet] : k \in 0..MaxTokens}

InitRead ==
    /\ main = FALSE
    /\ pc = "host"
    /\ env = standard_environment
    /\ out = <<>>
    /\ n = 0
    /\ op = "none"
    /\ line = <<>>
    /\ envBefore = standard_environment
    /\ outBefore = <<>>
    /\ val = Unit
    /\ err = NONE
    /\ tr = <<>>
    /\ lastDef = <<>>
    /\ tokens \in TokenLists
    /\ tokens0 = tokens
    /\ rd = Raise(NONE, <<>>)

\* The host calls read_from_tokens(tokens)
Read ==
    /\ op = "none"
    /\ op' = "read"
    /\ tokens0' = tokens
    /\ rd' = read_from_tokens(tokens)
    /\ tokens' = rd'.rest
    /\ UNCHANGED <<pc, main, env, out, n, line, envBefore, outBefore, val, err, tr,
                   lastDef>>

NextRead == Read

SpecRead == InitRead /\ [][NextRead]_vars

(***************************************************************************)
(* Reading the events of an attempt                                        *)
(***************************************************************************)
IsAttempt == op \in {"run", "repl"}

IsPrefix(p, q) == Len(p) <= Len(q) /\ SubSeq(q, 1, Len(p)) = p

\* The value the call of eval at position p returned
ExitVal(t, p) == t[Max(Idx(t, "exit", p))].v

\* The expression at the root of the attempt (no event when parse raised)
Root == tr[1].v

\* The lines the print builtin wrote, in the order of its calls
RECURSIVE Prints(_, _)
Prints(t, i) ==
    IF i > Len(t) THEN <<>>
    ELSE IF t[i].k = "call" /\ t[i].v.v[1] = Proc("print")
         THEN <<Join(SP, [j \in 1..(Len(t[i].v.v) - 1) |-> PyStr(t[i].v.v[j + 1])])>>
              \o Prints(t, i + 1)
    ELSE Prints(t, i + 1)

\* The lines repl itself printed in the last iteration
Echo == SubSeq(out, Len(outBefore) + Len(Prints(tr, 1)) + 1, Len(out))

Depth(toks, k) ==
    Cardinality({i \in 1..k : toks[i] = LP}) - Cardinality({i \in 1..k : toks[i] = RP})

\* The list runs out before one complete expression is read: it is empty, or
\* it opens a paren that is never closed.
Exhausted(toks) ==
    \/ toks = <<>>
    \/ /\ toks[1] = LP
       /\ \A k \in 1..Len(toks) : Depth(toks, k) > 0

\* C2 as stated: read_from_tokens raises SyntaxError, and no other exception,
\* for every token list that is exhausted before a complete expression is read.
C2_ExhaustedIsSyntaxError ==
    (op = "read" /\ Exhausted(tokens0)) => rd.err = "SyntaxError"

(***************************************************************************)
(* C3                                                                      *)
(***************************************************************************)
IfEnters(t) ==
    {i \in 1..Len(t) : t[i].k = "enter" /\ IsForm(t[i].v, sIf) /\ Len(t[i].v.v) = 4}

NoEventUnder(t, p) == \A j \in 1..Len(t) : ~IsPrefix(p, t[j].p)

\* C3: a 4-element if form evaluates its test exactly once and then exactly
\* one branch, conseq when the test's value is truthy and alt otherwise;
\* nothing of the other branch is evaluated, and the form returns the selected
\* branch's value when that branch returns (an unselected branch that would
\* raise or define causes neither an error nor a binding).
C3_IfEvaluatesOnlySelected ==
    IsAttempt =>
        \A i \in IfEnters(tr) :
            LET p == tr[i].p
                tests == Idx(tr, "exit", p \o <<2>>)
            IN /\ Cardinality(Idx(tr, "enter", p \o <<2>>)) = 1
               /\ Cardinality(tests) <= 1
               /\ tests = {} =>
                    /\ err # NONE
                    /\ NoEventUnder(tr, p \o <<3>>)
                    /\ NoEventUnder(tr, p \o <<4>>)
               /\ tests # {} =>
                    LET sel == IF Truthy(ExitVal(tr, p \o <<2>>)) THEN 3 ELSE 4
                    IN /\ Cardinality(Idx(tr, "enter", p \o <<sel>>)) = 1
                       /\ NoEventUnder(tr, p \o <<7 - sel>>)
                       /\ Idx(tr, "exit", p \o <<sel>>) # {} =>
                            /\ Idx(tr, "exit", p) # {}
                            /\ ExitVal(tr, p) = ExitVal(tr, p \o <<sel>>)

\* An if form returned although its unselected branch is an unbound symbol.
C3_Witness ==
    /\ IsAttempt /\ err = NONE /\ tr # <<>>
    /\ IsForm(Root, sIf) /\ Len(Root.v) = 4
    /\ Truthy(ExitVal(tr, <<2>>))
    /\ Root.v[4].t = "sym" /\ Root.v[4] \notin DOMAIN env
    /\ val = ExitVal(tr, <<3>>)

(***************************************************************************)
(* C4                                                                      *)
(***************************************************************************)
CallEnters(t) ==
    {i \in 1..Len(t) : t[i].k = "enter" /\ eval_branch(t[i].v, <<>>) = "call"}

\* The elements of the form at p that eval was called on
Kids(t, p) ==
    {j \in 1..Len(t) : t[j].k = "enter" /\ Len(t[j].p) = Len(p) + 1 /\ IsPrefix(p, t[j].p)}

\* C4: an application evaluates its first element, then the other elements
\* strictly left to right, each exactly once and each only after the one
\* before it returned; the procedure is invoked at most once, only after all
\* elements returned, with their values in order; an element that raises
\* ends the evaluation (no later element, no invocation); and the lines
\* print writes appear on the output in the order of the calls.
C4_ApplicationLeftToRight ==
    IsAttempt =>
        /\ \A i \in CallEnters(tr) :
            LET p == tr[i].p
                m == Len(tr[i].v.v)
                J == Cardinality(Kids(tr, p))
                calls == Idx(tr, "call", p)
            IN /\ J \in 1..m
               /\ \A c \in 1..J : Cardinality(Idx(tr, "enter", p \o <<c>>)) = 1
               /\ \A c \in 1..m : Cardinality(Idx(tr, "exit", p \o <<c>>)) <= 1
               /\ \A c \in 1..(J - 1) :
                    /\ Idx(tr, "exit", p \o <<c>>) # {}
                    /\ Max(Idx(tr, "enter", p \o <<c>>)) < Max(Idx(tr, "exit", p \o <<c>>))
                    /\ Max(Idx(tr, "exit", p \o <<c>>)) < Max(Idx(tr, "enter", p \o <<c + 1>>))
               /\ J < m => Idx(tr, "exit", p \o <<J>>) = {}
               /\ Idx(tr, "exit", p \o <<J>>) = {} => (calls = {} /\ err # NONE)
               /\ Cardinality(calls) <= 1
               /\ calls # {} =>
                    /\ J = m
                    /\ \A c \in 1..m : Max(Idx(tr, "exit", p \o <<c>>)) < Max(calls)
                    /\ tr[Max(calls)].v.v = [c \in 1..m |-> ExitVal(tr, p \o <<c>>)]
        /\ Len(out) >= Len(outBefore) + Len(Prints(tr, 1))
        /\ SubSeq(out, 1, Len(outBefore) + Len(Prints(tr, 1))) = outBefore \o Prints(tr, 1)

\* An application whose second argument raised: the first argument's print
\* is on the output, the third argument's is not, the procedure was not invoked.
C4_Witness ==
    /\ IsAttempt /\ err = "KeyError" /\ tr # <<>>
    /\ eval_branch(Root, <<>>) = "call" /\ Len(Root.v) = 4
    /\ Idx(tr, "exit", <<2>>) # {}
    /\ Idx(tr, "enter", <<3>>) # {}
    /\ Idx(tr, "enter", <<4>>) = {}
    /\ out = Append(outBefore, <<"1">>)

(***************************************************************************)
(* C5                                                                      *)
(***************************************************************************)
\* The value a Symbol has after the session's completed defines
Bound(k) == IF k \in DOMAIN lastDef THEN lastDef[k] ELSE standard_environment[k]

IsBareSymbol(program) ==
    Len(tokenize(program)) = 1 /\ atom(tokenize(program)[1]).t = "sym"

\* C5: across the lines of a session the Environment is the seeded one
\* overwritten by the most recently completed define of each name (never
\* reset), and evaluating a Symbol yields that define's value, or the seeded
\* builtin if the name was never defined, or fails if it was never bound.
C5_LookupIsLatestDefine ==
    /\ DOMAIN env = DOMAIN standard_environment \cup DOMAIN lastDef
    /\ \A k \in DOMAIN env : env[k] = Bound(k)
    /\ (IsAttempt /\ IsBareSymbol(line)) =>
            LET k == atom(tokenize(line)[1])
            IN IF k \in DOMAIN standard_environment \cup DOMAIN lastDef
               THEN err = NONE /\ val = Bound(k)
               ELSE err = "KeyError"

\* x was defined, redefined, and then evaluated to the later value.
C5_Witness ==
    /\ IsAttempt /\ line = X /\ err = NONE /\ val = Num(2) /\ n = 3

(***************************************************************************)
(* C6                                                                      *)
(***************************************************************************)
\* C6 as stated: after an input line of repl whose parse or evaluation
\* raised, the read loop is still running (the next line will be read).
C6_LoopSurvivesError == (op = "repl" /\ err # NONE) => pc = "repl"

(***************************************************************************)
(* C7                                                                      *)
(***************************************************************************)
PrintCalls(t) == {i \in 1..Len(t) : t[i].k = "call" /\ t[i].v.v[1] = Proc("print")}

BeginsComplete(toks) ==
    /\ toks # <<>>
    /\ toks[1] # RP
    /\ toks[1] = LP => \E k \in 1..Len(toks) : Depth(toks, k) = 0

\* The number of tokens of that first expression
FirstLen(toks) ==
    IF toks[1] # LP THEN 1
    ELSE CHOOSE k \in 1..Len(toks) :
            Depth(toks, k) = 0 /\ \A j \in 1..(k - 1) : Depth(toks, j) > 0

Paren(token) == [t |-> "paren", v |-> token]

\* A tree written back as parens and atoms
RECURSIVE Flatten(_)
Flatten(x) ==
    IF x.t = "list"
    THEN <<Paren(LP)>> \o Cat([i \in 1..Len(x.v) |-> Flatten(x.v[i])]) \o <<Paren(RP)>>
    ELSE <<x>>

Leaf(token) == IF token \in {LP, RP} THEN Paren(token) ELSE atom(token)

\* C8: on a token list that begins with one complete expression,
\* read_from_tokens returns without raising, consumes exactly the tokens of
\* that expression, returns the tree whose nesting and element order mirror
\* them, and leaves the trailing tokens unconsumed and in order.
C8_ReadsExactlyFirstExpression ==
    (op = "read" /\ BeginsComplete(tokens0)) =>
        LET k == FirstLen(tokens0)
        IN /\ rd.err = NONE
           /\ tokens = SubSeq(tokens0, k + 1, Len(tokens0))
           /\ Flatten(rd.val) = [i \in 1..k |-> Leaf(tokens0[i])]

\* A nested list of two elements was read and a trailing token was left.
C8_Witness ==
    /\ op = "read" /\ rd.err = NONE
    /\ rd.val.t = "list" /\ Len(rd.val.v) = 2
    /\ rd.val.v[1].t = "list" /\ rd.val.v[2] # rd.val.v[1]
    /\ tokens # <<>>

(***************************************************************************)
(* C9                                                                      *)
(***************************************************************************)
CallsOf(t, proc) == {i \in 1..Len(t) : t[i].k = "call" /\ t[i].v.v[1] = Proc(proc)}

Returned(t, i) == Idx(t, "exit", t[i].p) # {}

\* C9 as stated: car and cdr each fail on an empty List; on a non-empty List
\* car returns the first element and cdr the List of all but the first;
\* cons(x, L) returns the List with x prepended.
C9_CarCdrFailOnEmpty ==
    IsAttempt =>
        /\ \A i \in CallsOf(tr, "car") \cup CallsOf(tr, "cdr") :
            (Len(tr[i].v.v) = 2 /\ tr[i].v.v[2] = Lst(<<>>)) =>
                (~Returned(tr, i) /\ err # NONE)
        /\ \A i \in CallsOf(tr, "car") :
            (Len(tr[i].v.v) = 2 /\ tr[i].v.v[2].t = "list" /\ tr[i].v.v[2].v # <<>>) =>
                (Returned(tr, i) /\ ExitVal(tr, tr[i].p) = Head(tr[i].v.v[2].v))
        /\ \A i \in CallsOf(tr, "cdr") :
            (Len(tr[i].v.v) = 2 /\ tr[i].v.v[2].t = "list" /\ tr[i].v.v[2].v # <<>>) =>
                (Returned(tr, i) /\ ExitVal(tr, tr[i].p) = Lst(Tail(tr[i].v.v[2].v)))
        /\ \A i \in CallsOf(tr, "cons") :
            (Len(tr[i].v.v) = 3 /\ tr[i].v.v[3].t = "list") =>
                (Returned(tr, i)
                 /\ ExitVal(tr, tr[i].p) = Lst(<<tr[i].v.v[2]>> \o tr[i].v.v[3].v))

(***************************************************************************)
(* C10                                                                     *)
(***************************************************************************)
SpecialEnters(t) ==
    {i \in 1..Len(t) :
        t[i].k = "enter" /\ (IsForm(t[i].v, sIf) \/ IsForm(t[i].v, sDefine))}

\* C10: in every reachable state, also after (define if v) or
\* (define define v), a List whose first element is the Symbol if or define
\* is evaluated by the conditional or definition rule: its first element is
\* not evaluated and nothing is invoked for it; a define form returns Unit
\* and an if form its selected branch's value.  The binding shows only when
\* the bare Symbol is evaluated.
C10_SpecialFormsBeforeBindings ==
    IsAttempt =>
        /\ \A i \in SpecialEnters(tr) :
            LET p == tr[i].p
            IN /\ NoEventUnder(tr, p \o <<1>>)
               /\ Idx(tr, "call", p) = {}
               /\ (IsForm(tr[i].v, sDefine) /\ Idx(tr, "exit", p) # {}) =>
                    /\ ExitVal(tr, p) = Unit
                    /\ Idx(tr, "exit", p \o <<3>>) # {}
               /\ (IsForm(tr[i].v, sIf) /\ Idx(tr, "exit", p) # {}) =>
                    /\ Idx(tr, "exit", p \o <<2>>) # {}
                    /\ ExitVal(tr, p) =
                         ExitVal(tr, p \o <<IF Truthy(ExitVal(tr, p \o <<2>>)) THEN 3 ELSE 4>>)
        /\ (tr # <<>> /\ Root \in {Sym(sIf), Sym(sDefine)}) =>
            IF Root \in DOMAIN envBefore
            THEN err = NONE /\ val = envBefore[Root]
            ELSE err = "KeyError"

\* if is bound to a procedure, and an if form still selected its branch.
C10_Witness ==
    /\ IsAttempt /\ err = NONE /\ tr # <<>>
    /\ Sym(sIf) \in DOMAIN envBefore /\ envBefore[Sym(sIf)].t = "proc"
    /\ IsForm(Root, sIf)
    /\ val = Num(2)

====
